---- MODULE Spec2Model ----
(***************************************************************************)
(* A model of rtscrapper.py: the listing extractor (parse_selector), the   *)
(* cross-listing merge (parse_homepage), the streamed detail-page reader   *)
(* (parse_page), the critic-score conversion, and the interactive session  *)
(* (main, sort_data).  Text is a sequence of one-character strings, so     *)
(* that strip(), s[-1], s[:-1], find("%"), "x in s" and int() are computed  *)
(* as Python computes them.                                                *)
(***************************************************************************)
EXTENDS Integers, Sequences, FiniteSets, TLC

VARIABLES
    \* the critic-score conversion taken alone (lines 32-36)
    scorePc, scoreIn, scoreOut,
    \* one call of parse_page (lines 65-88)
    pagePc, page, reads, additional_content, pageErr,
    \* one call of parse_homepage (lines 42-63) and its parse_selector calls
    pc, doc, lastHREF, sel_movies, opening_movies, top_box_movies, movies,
    mergeIdx, fetches, err,
    \* the interactive loop of main (lines 171-200)
    sessPc, loaded, results, prev, choice, sessErr

scoreVars == <<scorePc, scoreIn, scoreOut>>
pageVars == <<pagePc, page, reads, additional_content, pageErr>>
homeVars == <<pc, doc, lastHREF, sel_movies, opening_movies, top_box_movies,
              movies, mergeIdx, fetches, err>>
sessVars == <<sessPc, loaded, results, prev, choice, sessErr>>
vars == <<scoreVars, pageVars, homeVars, sessVars>>

(***************************************************************************)
(* Bounds of the explored inputs.                                          *)
(***************************************************************************)
MaxLen == 3
MaxChunks == 3
MaxTags == 3
MaxMovies == 3

(***************************************************************************)
(* Python values held in a movie dict: an int, a unicode string, or no     *)
(* entry at all (the key is missing from the dict).                        *)
(***************************************************************************)
IntV(n) == [k |-> "int", i |-> n, s |-> <<>>]
StrV(t) == [k |-> "unicode", i |-> 0, s |-> t]
Missing == [k |-> "missing", i |-> 0, s |-> <<>>]
None == [k |-> "None", i |-> 0, s |-> <<>>]

(***************************************************************************)
(* Text primitives.                                                        *)
(***************************************************************************)
Digits == <<"0", "1", "2", "3", "4", "5", "6", "7", "8", "9">>

IsDigit(c) == \E d \in 1..Len(Digits) : Digits[d] = c

DigitVal(c) == (CHOOSE d \in 1..Len(Digits) : Digits[d] = c) - 1

IsSpace(c) == c = " "

RECURSIVE LStrip(_)
LStrip(t) == IF Len(t) > 0 /\ IsSpace(t[1]) THEN LStrip(Tail(t)) ELSE t

RECURSIVE RStrip(_)
RStrip(t) ==
    IF Len(t) > 0 /\ IsSpace(t[Len(t)]) THEN RStrip(SubSeq(t, 1, Len(t) - 1)) ELSE t

\* unicode.strip()
Strip(t) == RStrip(LStrip(t))

\* s[:n]
Prefix(t, n) == SubSeq(t, 1, n)

\* s.find(c): the 0-based index of the first occurrence, -1 when there is none
Find(t, c) ==
    IF \E j \in 1..Len(t) : t[j] = c
    THEN (CHOOSE j \in 1..Len(t) : t[j] = c /\ \A h \in 1..(j - 1) : t[h] # c) - 1
    ELSE -1

\* sub in s
Contains(t, sub) ==
    \E j \in 0..(Len(t) - Len(sub)) : SubSeq(t, j + 1, j + Len(sub)) = sub

RECURSIVE DigitsValue(_)
DigitsValue(t) ==
    IF Len(t) = 0 THEN 0
    ELSE 10 * DigitsValue(SubSeq(t, 1, Len(t) - 1)) + DigitVal(t[Len(t)])

\* the digits of an int() argument once blanks and the sign are taken off
IntBody(t) ==
    LET u == Strip(t)
    IN  IF Len(u) > 0 /\ u[1] \in {"+", "-"} THEN Tail(u) ELSE u

\* int(t) returns (it raises ValueError otherwise)
IsIntLiteral(t) ==
    /\ Len(IntBody(t)) > 0
    /\ \A j \in 1..Len(IntBody(t)) : IsDigit(IntBody(t)[j])

\* int(t), for a t that int() accepts
IntOf(t) ==
    LET u == Strip(t)
    IN  IF Len(u) > 0 /\ u[1] = "-" THEN 0 - DigitsValue(IntBody(t))
        ELSE DigitsValue(IntBody(t))

(***************************************************************************)
(* Critic score of an accepted node, from the string of the preceding      *)
(* span: content["critic_score"] = span.string.strip(), turned into an int *)
(* when its last character is "%".  The result is the value stored, or the *)
(* exception the statement raises.                                         *)
(***************************************************************************)
CriticScore(raw) ==
    LET t == Strip(raw)
    IN  IF Len(t) = 0 THEN [err |-> "IndexError", val |-> None]
        ELSE IF t[Len(t)] = "%"
        THEN IF IsIntLiteral(Prefix(t, Len(t) - 1))
             THEN [err |-> "none", val |-> IntV(IntOf(Prefix(t, Len(t) - 1)))]
             ELSE [err |-> "ValueError", val |-> None]
        ELSE [err |-> "none", val |-> StrV(t)]

(***************************************************************************)
(* Audience review of a matched metadata tag (lines 78-86): the content    *)
(* attribute, turned into an int when it holds a "%".                      *)
(***************************************************************************)
AudienceReview(content) ==
    IF content = None THEN [err |-> "AttributeError", val |-> None]
    ELSE LET perc_index == Find(content.s, "%")
         IN  IF perc_index # -1
             THEN IF IsIntLiteral(Prefix(content.s, perc_index))
                  THEN [err |-> "none", val |-> IntV(IntOf(Prefix(content.s, perc_index)))]
                  ELSE [err |-> "ValueError", val |-> None]
             ELSE [err |-> "none", val |-> content]

(***************************************************************************)
(* The parts of the state a specification leaves alone.                    *)
(***************************************************************************)
ScoreIdle == scorePc = "idle" /\ scoreIn = <<>> /\ scoreOut = [err |-> "none", val |-> None]

PageIdle ==
    /\ pagePc = "idle"
    /\ page = [up |-> TRUE, chunks |-> <<>>]
    /\ reads = 0
    /\ additional_content = Missing
    /\ pageErr = "none"

HomeIdle ==
    /\ pc = "idle"
    /\ doc = <<>>
    /\ lastHREF = ""
    /\ sel_movies = <<>>
    /\ opening_movies = <<>>
    /\ top_box_movies = <<>>
    /\ movies = <<>>
    /\ mergeIdx = 0
    /\ fetches = 0
    /\ err = "none"

SessIdle ==
    /\ sessPc = "idle"
    /\ loaded = <<>>
    /\ results = <<>>
    /\ prev = <<>>
    /\ choice = ""
    /\ sessErr = "none"

\* every sequence over S of length at most n
RECURSIVE SeqsUpTo(_, _)
SeqsUpTo(S, n) ==
    IF n = 0 THEN {<<>>}
    ELSE LET shorter == SeqsUpTo(S, n - 1)
         IN  shorter \cup {Append(t, c) : t \in shorter, c \in S}

(***************************************************************************)
(* The critic-score conversion on its own: any marker text over a small    *)
(* alphabet, up to MaxLen characters.                                      *)
(***************************************************************************)
ScoreAlphabet == {"8", "7", "%", " ", "x", "-"}

InitScore ==
    /\ scorePc = "input"
    /\ scoreIn \in SeqsUpTo(ScoreAlphabet, MaxLen)
    /\ scoreOut = [err |-> "none", val |-> None]
    /\ PageIdle /\ HomeIdle /\ SessIdle

ConvertCriticScore ==
    /\ scorePc = "input"
    /\ scoreOut' = CriticScore(scoreIn)
    /\ scorePc' = IF CriticScore(scoreIn).err = "none" THEN "stored" ELSE "raised"
    /\ UNCHANGED <<scoreIn, pageVars, homeVars, sessVars>>

NextScore == ConvertCriticScore

SpecScore == InitScore /\ [][NextScore]_vars

(***************************************************************************)
(* C4: converting the marker text of an accepted node never raises; a text *)
(* that ends in "%" after a number becomes that number, and every other    *)
(* text (empty after trimming, or "%" after something that is no number)   *)
(* is kept as the trimmed string.                                          *)
(***************************************************************************)
EndsInPercentNumber(t) ==
    /\ Len(Strip(t)) > 0
    /\ Strip(t)[Len(Strip(t))] = "%"
    /\ IsIntLiteral(Prefix(Strip(t), Len(Strip(t)) - 1))

C4_ScoreParsingNeverRaises ==
    scorePc # "input" =>
        /\ scorePc = "stored"
        /\ scoreOut.err = "none"
        /\ scoreOut.val = IF EndsInPercentNumber(scoreIn)
                          THEN IntV(IntOf(Prefix(Strip(scoreIn), Len(Strip(scoreIn)) - 1)))
                          ELSE StrV(Strip(scoreIn))

(***************************************************************************)
(* A detail page as the stream delivers it: whether the GET succeeds, and  *)
(* for each chunk whether its soup holds the metadata tag and, if so, the  *)
(* tag's content attribute (None when the tag has none).                   *)
(***************************************************************************)
NoTag == [tag |-> FALSE, content |-> None]
TagWith(c) == [tag |-> TRUE, content |-> c]

ChunkKinds ==
    { NoTag,
      TagWith(StrV(<<"8", "0", "%">>)),
      TagWith(StrV(<<"w", "a", "n", "t">>)),
      TagWith(StrV(<<"x", "%">>)),
      TagWith(None) }

Pages == {[up |-> u, chunks |-> cs] : u \in BOOLEAN, cs \in SeqsUpTo(ChunkKinds, MaxChunks)}

\* the for loop of parse_page from chunk n on: what it returns or raises, and
\* how many chunks iter_content has handed out by then
RECURSIVE ScanChunks(_, _)
ScanChunks(chunks, n) ==
    IF n > Len(chunks) THEN [err |-> "none", val |-> Missing, reads |-> Len(chunks)]
    ELSE IF chunks[n].tag
    THEN [err |-> AudienceReview(chunks[n].content).err,
          val |-> AudienceReview(chunks[n].content).val,
          reads |-> n]
    ELSE ScanChunks(chunks, n + 1)

\* parse_page(page_url), for the page the URL serves
ParsePage(p) ==
    IF ~p.up THEN [err |-> "RequestException", val |-> None, reads |-> 0]
    ELSE ScanChunks(p.chunks, 1)

(***************************************************************************)
(* parse_page step by step: the GET, one action per chunk handed out by    *)
(* iter_content, and the return.                                           *)
(***************************************************************************)
InitPage ==
    /\ pagePc = "get"
    /\ page \in Pages
    /\ reads = 0
    /\ additional_content = Missing
    /\ pageErr = "none"
    /\ ScoreIdle /\ HomeIdle /\ SessIdle

\* line 73: requests.get(page_url, stream = True)
GetPage ==
    /\ pagePc = "get"
    /\ IF page.up
       THEN pagePc' = "iter" /\ pageErr' = pageErr
       ELSE pagePc' = "raised" /\ pageErr' = "RequestException"
    /\ UNCHANGED <<page, reads, additional_content, scoreVars, homeVars, sessVars>>

\* lines 74-87 without the break of line 87
ReadChunkNoBreak ==
    /\ pagePc = "iter"
    /\ reads < Len(page.chunks)
    /\ reads' = reads + 1
    /\ LET chunk == page.chunks[reads + 1]
           review == AudienceReview(chunk.content)
       IN  IF ~chunk.tag
           THEN UNCHANGED <<pagePc, additional_content, pageErr>>
           ELSE IF review.err # "none"
           THEN pagePc' = "raised" /\ pageErr' = review.err
                /\ UNCHANGED additional_content
           ELSE additional_content' = review.val
                /\ UNCHANGED <<pagePc, pageErr>>
    /\ UNCHANGED <<page, scoreVars, homeVars, sessVars>>

\* lines 74-87: one iteration of the for loop over page.iter_content
ReadChunk ==
    /\ pagePc = "iter"
    /\ reads < Len(page.chunks)
    /\ reads' = reads + 1
    /\ LET chunk == page.chunks[reads + 1]
           review == AudienceReview(chunk.content)
       IN  IF ~chunk.tag
           THEN UNCHANGED <<pagePc, additional_content, pageErr>>
           ELSE IF review.err # "none"
           THEN pagePc' = "raised" /\ pageErr' = review.err
                /\ UNCHANGED additional_content
           ELSE additional_content' = review.val /\ pagePc' = "return"
                /\ UNCHANGED pageErr
    /\ UNCHANGED <<page, scoreVars, homeVars, sessVars>>

\* line 74: iter_content is exhausted, the loop ends without a match
EndOfStream ==
    /\ pagePc = "iter"
    /\ reads = Len(page.chunks)
    /\ pagePc' = "return"
    /\ UNCHANGED <<page, reads, additional_content, pageErr, scoreVars, homeVars, sessVars>>

\* line 88, after closing() has released the connection
ReturnPage ==
    /\ pagePc = "return"
    /\ pagePc' = "returned"
    /\ UNCHANGED <<page, reads, additional_content, pageErr, scoreVars, homeVars, sessVars>>

NextPage == GetPage \/ ReadChunk \/ EndOfStream \/ ReturnPage

SpecPage == InitPage /\ [][NextPage]_vars

\* the chunks of the page that hold the metadata tag
TagChunks == {n \in 1..Len(page.chunks) : page.chunks[n].tag}

FirstTagChunk == CHOOSE n \in TagChunks : \A m \in TagChunks : n <= m

(***************************************************************************)
(* C8: once a chunk yields the audience tag no further chunk is read: with *)
(* the tag first in chunk k of n exactly k chunks are read, whatever the   *)
(* later chunks hold; with no tag in any chunk all n chunks are read and   *)
(* the result has no audience score.                                       *)
(***************************************************************************)
C8_StopsReadingAtFirstMatch ==
    /\ reads <= Len(page.chunks)
    /\ TagChunks # {} => reads <= FirstTagChunk
    /\ pagePc \in {"return", "returned"} =>
          IF TagChunks # {}
          THEN reads = FirstTagChunk /\ additional_content # Missing
          ELSE reads = Len(page.chunks) /\ additional_content = Missing

C8_Witness ==
    /\ pagePc = "returned"
    /\ Len(page.chunks) = 3
    /\ ~page.chunks[1].tag /\ page.chunks[2].tag /\ page.chunks[3].tag
    /\ reads = 2
    /\ additional_content = IntV(80)

\* the step-by-step reader and the function agree on every page
PageStepsAgree ==
    /\ pagePc \in {"return", "returned"} =>
          ParsePage(page) = [err |-> "none", val |-> additional_content, reads |-> reads]
    /\ pagePc = "raised" =>
          /\ ParsePage(page).err = pageErr
          /\ ParsePage(page).reads = reads

(***************************************************************************)
(* The homepage as parse_homepage reads it.  A node matched by a listing   *)
(* selector carries its string (NoString when tag.string is None) and its  *)
(* href; an accepted node also has the span find_previous("span") returns  *)
(* (or none) and the detail page its href leads to.                        *)
(***************************************************************************)
NoString == "<None>"
Names == {"Movie X", "Movie Y"}
Hrefs == {"/m/x", "/m/y"}

TagKinds == {[string |-> n, href |-> h] : n \in Names \cup {NoString}, h \in Hrefs}

SpanKinds ==
    { [found |-> FALSE, string |-> None],
      [found |-> TRUE, string |-> None],
      [found |-> TRUE, string |-> StrV(<<"9", "0", "%">>)],
      [found |-> TRUE, string |-> StrV(<<" ", "S", "o", "o", "n">>)],
      [found |-> TRUE, string |-> StrV(<<" ">>)],
      [found |-> TRUE, string |-> StrV(<<"x", "%">>)] }

DetailPages ==
    { [up |-> FALSE, chunks |-> <<>>],
      [up |-> TRUE, chunks |-> <<NoTag>>],
      [up |-> TRUE, chunks |-> <<NoTag, TagWith(StrV(<<"8", "0", "%">>))>>],
      [up |-> TRUE, chunks |-> <<TagWith(None)>>] }

NoSpanError == "AttributeError: 'NoneType' object has no attribute 'string'"
NoSpanStringError == "AttributeError: 'NoneType' object has no attribute 'strip'"

\* lines 32-36 for the span found (or not) before the node
SpanScore(span) ==
    IF ~span.found THEN [err |-> NoSpanError, val |-> None]
    ELSE IF span.string = None THEN [err |-> NoSpanStringError, val |-> None]
    ELSE CriticScore(span.string.s)

\* [x["name"] for x in movies]
NamesOf(mv) == {mv[j].name : j \in 1..Len(mv)}

\* lines 22-27 with the test of line 26 left out
AcceptsWithoutNameTest(tag, last, mv) ==
    /\ tag.string # NoString
    /\ tag.href # last

\* lines 22-27 with the test of line 24 left out
AcceptsWithoutHrefTest(tag, last, mv) ==
    /\ tag.string # NoString
    /\ tag.string \notin NamesOf(mv)

\* lines 22-27: none of the three continue statements is taken
Accepts(tag, last, mv) ==
    /\ tag.string # NoString
    /\ tag.href # last
    /\ tag.string \notin NamesOf(mv)

\* line 38 placed at the top of the loop body
DetailFetchesOfEveryNode(accepted, scored) == 1

\* the detail-page requests one iteration makes: line 38 is reached only by
\* a node that passed lines 22-27 and whose critic score was read
DetailFetches(accepted, scored) == IF accepted /\ scored THEN 1 ELSE 0

InitHome ==
    /\ pc = "get"
    /\ doc = <<>>
    /\ lastHREF = ""
    /\ sel_movies = <<>>
    /\ opening_movies = <<>>
    /\ top_box_movies = <<>>
    /\ movies = <<>>
    /\ mergeIdx = 0
    /\ fetches = 0
    /\ err = "none"
    /\ ScoreIdle /\ PageIdle /\ SessIdle

\* an exception leaves parse_homepage: nothing is returned, its locals are gone
Raise(e) ==
    /\ pc' = "raised"
    /\ err' = e
    /\ doc' = <<>>
    /\ lastHREF' = ""
    /\ sel_movies' = <<>>
    /\ opening_movies' = <<>>
    /\ top_box_movies' = <<>>
    /\ movies' = <<>>
    /\ mergeIdx' = 0

\* lines 46-50: the GET of the homepage and the first call of parse_selector
GetHomepage ==
    /\ pc = "get"
    /\ \E up \in BOOLEAN :
          IF up
          THEN pc' = "opening"
               /\ UNCHANGED <<doc, lastHREF, sel_movies, opening_movies,
                              top_box_movies, movies, mergeIdx, err>>
          ELSE Raise("RequestException")
    /\ UNCHANGED <<fetches, scoreVars, pageVars, sessVars>>

\* lines 21-39: one iteration of the for loop of parse_selector
SelectTag ==
    /\ pc \in {"opening", "top_box"}
    /\ Len(doc) < MaxTags
    /\ \E tag \in TagKinds :
          IF ~Accepts(tag, lastHREF, sel_movies)
          THEN /\ doc' = Append(doc, tag)
               /\ fetches' = fetches + DetailFetches(FALSE, FALSE)
               /\ UNCHANGED <<pc, lastHREF, sel_movies, opening_movies,
                              top_box_movies, movies, mergeIdx, err>>
          ELSE \E span \in SpanKinds :
                 IF SpanScore(span).err # "none"
                 THEN /\ Raise(SpanScore(span).err)
                      /\ fetches' = fetches + DetailFetches(TRUE, FALSE)
                 ELSE \E p \in DetailPages :
                        /\ fetches' = fetches + DetailFetches(TRUE, TRUE)
                        /\ IF ParsePage(p).err # "none"
                           THEN Raise(ParsePage(p).err)
                           ELSE /\ doc' = Append(doc, tag)
                                /\ lastHREF' = tag.href
                                /\ sel_movies' = Append(sel_movies,
                                       [name |-> tag.string,
                                        critic_score |-> SpanScore(span).val,
                                        audience_review |-> ParsePage(p).val])
                                /\ UNCHANGED <<pc, opening_movies, top_box_movies,
                                               movies, mergeIdx, err>>
    /\ UNCHANGED <<scoreVars, pageVars, sessVars>>

\* lines 40 and 52: the opening listing is returned and extends movies
ReturnOpening ==
    /\ pc = "opening"
    /\ opening_movies' = sel_movies
    /\ movies' = movies \o sel_movies
    /\ pc' = "top_box"
    /\ doc' = <<>>
    /\ lastHREF' = ""
    /\ sel_movies' = <<>>
    /\ UNCHANGED <<top_box_movies, mergeIdx, fetches, err, scoreVars, pageVars, sessVars>>

\* lines 40 and 53: the top-box-office listing is returned
ReturnTopBox ==
    /\ pc = "top_box"
    /\ top_box_movies' = sel_movies
    /\ pc' = "merge"
    /\ mergeIdx' = 0
    /\ doc' = <<>>
    /\ lastHREF' = ""
    /\ sel_movies' = <<>>
    /\ UNCHANGED <<opening_movies, movies, fetches, err, scoreVars, pageVars, sessVars>>

\* lines 59-61 with the test of line 60 left out (line 54 put back)
MergeStepAppendsAll ==
    /\ pc = "merge"
    /\ mergeIdx < Len(top_box_movies)
    /\ mergeIdx' = mergeIdx + 1
    /\ movies' = Append(movies, top_box_movies[mergeIdx + 1])
    /\ UNCHANGED <<pc, doc, lastHREF, sel_movies, opening_movies, top_box_movies,
                   fetches, err, scoreVars, pageVars, sessVars>>

\* lines 59-61: one iteration of the merge loop
MergeStep ==
    /\ pc = "merge"
    /\ mergeIdx < Len(top_box_movies)
    /\ mergeIdx' = mergeIdx + 1
    /\ LET movie == top_box_movies[mergeIdx + 1]
       IN  movies' = IF movie.name \notin NamesOf(movies)
                     THEN Append(movies, movie)
                     ELSE movies
    /\ UNCHANGED <<pc, doc, lastHREF, sel_movies, opening_movies, top_box_movies,
                   fetches, err, scoreVars, pageVars, sessVars>>

\* line 63
ReturnMovies ==
    /\ pc = "merge"
    /\ mergeIdx = Len(top_box_movies)
    /\ pc' = "returned"
    /\ UNCHANGED <<doc, lastHREF, sel_movies, opening_movies, top_box_movies, movies,
                   mergeIdx, fetches, err, scoreVars, pageVars, sessVars>>

Next == GetHomepage \/ SelectTag \/ ReturnOpening \/ ReturnTopBox \/ MergeStep \/ ReturnMovies

Spec == InitHome /\ [][Next]_vars

\* the names of a list of movie dicts, in order
NameSeq(mv) == [j \in 1..Len(mv) |-> mv[j].name]

UniqueNames(mv) == \A a, b \in 1..Len(mv) : mv[a].name = mv[b].name => a = b

(***************************************************************************)
(* C1: no two records of a collection have the same name: in the list      *)
(* parse_selector builds, in the two listings it returns, and in the       *)
(* merged list after every append.                                         *)
(***************************************************************************)
C1_NamesUnique ==
    /\ UniqueNames(sel_movies)
    /\ UniqueNames(opening_movies)
    /\ UniqueNames(top_box_movies)
    /\ UniqueNames(movies)

C1_Witness ==
    /\ pc = "returned"
    /\ Len(movies) = 2
    /\ Len(opening_movies) = 2
    /\ Len(top_box_movies) = 2
    /\ NamesOf(opening_movies) = NamesOf(top_box_movies)

(***************************************************************************)
(* C2: the merged list is the opening listing, in order, followed by the   *)
(* top-box-office records whose name is not in the opening listing, in     *)
(* order; for a title in both listings the opening record is the one kept. *)
(***************************************************************************)
NotInOpening(m) == m.name \notin NamesOf(opening_movies)

C2_MergeKeepsPrimaryThenNewSecondary ==
    pc = "returned" =>
        /\ movies = opening_movies \o SelectSeq(top_box_movies, NotInOpening)
        /\ \A a \in 1..Len(opening_movies) : \A b \in 1..Len(movies) :
              movies[b].name = opening_movies[a].name => movies[b] = opening_movies[a]

C2_Witness ==
    /\ pc = "returned"
    /\ NameSeq(opening_movies) = <<"Movie Y">>
    /\ NameSeq(top_box_movies) = <<"Movie Y", "Movie X">>
    /\ opening_movies[1] # top_box_movies[1]
    /\ movies = <<opening_movies[1], top_box_movies[2]>>

(***************************************************************************)
(* The listing extractor stated over the nodes read so far, independently  *)
(* of the loop: node i is kept when it has a string, its href differs from *)
(* the href of the last node kept before it, and no node kept before it    *)
(* has its string.                                                         *)
(***************************************************************************)
RECURSIVE KeptAt(_, _)
KeptAt(d, n) ==
    LET keptBefore == {j \in 1..(n - 1) : KeptAt(d, j)}
        lastKept == CHOOSE j \in keptBefore : \A h \in keptBefore : h <= j
        hrefBefore == IF keptBefore = {} THEN "" ELSE d[lastKept].href
    IN  /\ d[n].string # NoString
        /\ d[n].href # hrefBefore
        /\ \A j \in keptBefore : d[j].string # d[n].string

\* the href of the last node kept among the first n
LastKeptHref(d, n) ==
    LET kept == {j \in 1..n : KeptAt(d, j)}
    IN  IF kept = {} THEN "" ELSE d[CHOOSE j \in kept : \A h \in kept : h <= j].href

RECURSIVE KeptNames(_, _)
KeptNames(d, n) ==
    IF n = 0 THEN <<>>
    ELSE IF KeptAt(d, n) THEN Append(KeptNames(d, n - 1), d[n].string)
    ELSE KeptNames(d, n - 1)

\* nodes a..b of d are one title repeated with one link target
IsRun(d, a, b) ==
    /\ a < b
    /\ d[a].string # NoString
    /\ \A j \in a..b : d[j].string = d[a].string /\ d[j].href = d[a].href

CountOf(mv, n) == Cardinality({j \in 1..Len(mv) : mv[j].name = n})

SkipRules ==
    /\ NameSeq(sel_movies) = KeptNames(doc, Len(doc))
    /\ lastHREF = LastKeptHref(doc, Len(doc))

(***************************************************************************)
(* C3 as stated: a title that appears N>1 times in a row with one link     *)
(* target yields exactly one record; and a node is skipped when it has no  *)
(* text, when its href is that of the last accepted node, or when its name *)
(* is already in the output, the accepted nodes keeping document order.    *)
(***************************************************************************)
C3_RunYieldsExactlyOne ==
    /\ \A a, b \in 1..Len(doc) :
          IsRun(doc, a, b) => CountOf(sel_movies, doc[a].string) = 1
    /\ SkipRules

(***************************************************************************)
(* C3 amended: such a run yields at most one record, and exactly one when  *)
(* its link target differs from that of the node accepted last before the  *)
(* run; the skip rules are as stated.                                      *)
(***************************************************************************)
C3_RunYieldsOneUnlessHrefOfLastAccepted ==
    /\ \A a, b \in 1..Len(doc) :
          IsRun(doc, a, b) =>
              /\ CountOf(sel_movies, doc[a].string) <= 1
              /\ doc[a].href # LastKeptHref(doc, a - 1) =>
                    CountOf(sel_movies, doc[a].string) = 1
    /\ SkipRules

C3_Witness ==
    /\ pc = "top_box"
    /\ Len(doc) = 3
    /\ IsRun(doc, 2, 3)
    /\ doc[1].string \notin {NoString, doc[2].string}
    /\ doc[1].href # doc[2].href
    /\ Len(sel_movies) = 2
    /\ sel_movies[2].name = doc[2].string

(***************************************************************************)
(* C5: a node with no preceding span is no error: the extractor never      *)
(* stops on it.                                                            *)
(***************************************************************************)
C5_NoSpanIsNoError == ~(pc = "raised" /\ err = NoSpanError)

(***************************************************************************)
(* C9 as stated: when parse_homepage returns, the number of detail-page    *)
(* requests made is the number of movies in the merged list.               *)
(***************************************************************************)
C9_OneFetchPerMovie == pc = "returned" => fetches = Len(movies)

(***************************************************************************)
(* C9 amended: the number of detail-page requests is the number of records *)
(* the two extractions accepted, which is the size of the merged list plus *)
(* the number of titles in both listings; a title in both is requested     *)
(* twice.  It is never less than the size of the merged list.              *)
(***************************************************************************)
C9_OneFetchPerAcceptedNode ==
    /\ pc = "opening" => fetches = Len(sel_movies)
    /\ pc = "top_box" => fetches = Len(opening_movies) + Len(sel_movies)
    /\ pc = "returned" =>
          /\ fetches = Len(opening_movies) + Len(top_box_movies)
          /\ fetches = Len(movies)
                + Cardinality(NamesOf(opening_movies) \cap NamesOf(top_box_movies))

C9_Witness ==
    /\ pc = "returned"
    /\ Len(movies) = 2
    /\ fetches = 3
    /\ Cardinality(NamesOf(opening_movies) \cap NamesOf(top_box_movies)) = 1

(***************************************************************************)
(* Python 2 ordering of the values a sort key can take: ints by value,     *)
(* unicode strings by code point, and any int below any unicode string.    *)
(***************************************************************************)
\* the characters of the model in ascending code-point order
CodePoints ==
    <<" ", "%", "-", "/", "0", "1", "2", "3", "4", "5", "6", "7", "8", "9",
      "A", "N", "S", "a", "d", "e", "i", "k", "l", "n", "o", "t", "w", "x">>

Ord(c) == CHOOSE j \in 1..Len(CodePoints) : CodePoints[j] = c

RECURSIVE TextLess(_, _)
TextLess(t, u) ==
    IF Len(u) = 0 THEN FALSE
    ELSE IF Len(t) = 0 THEN TRUE
    ELSE IF Ord(t[1]) # Ord(u[1]) THEN Ord(t[1]) < Ord(u[1])
    ELSE TextLess(Tail(t), Tail(u))

\* a < b
PyLess(a, b) ==
    IF a.k = "int" /\ b.k = "int" THEN a.i < b.i
    ELSE IF a.k = "unicode" /\ b.k = "unicode" THEN TextLess(a.s, b.s)
    ELSE a.k = "int" /\ b.k = "unicode"

\* k[sort_key]
Field(x, key) == IF key = "critic_score" THEN x.critic_score ELSE x.audience_review

Reverse(q) == [j \in 1..Len(q) |-> q[Len(q) + 1 - j]]

\* x put into the ascending list q behind every element that is not above it
InsertAfterEquals(q, x, key) ==
    LET above == {j \in 1..Len(q) : PyLess(Field(x, key), Field(q[j], key))}
        at == IF above = {} THEN Len(q) + 1
              ELSE CHOOSE j \in above : \A h \in above : j <= h
    IN  SubSeq(q, 1, at - 1) \o <<x>> \o SubSeq(q, at, Len(q))

\* a stable ascending sort of q by key
RECURSIVE StableSort(_, _)
StableSort(q, key) ==
    IF Len(q) = 0 THEN <<>>
    ELSE InsertAfterEquals(StableSort(SubSeq(q, 1, Len(q) - 1), key), q[Len(q)], key)

\* an ascending sort turned round: equal keys end up in reverse input order
SortThenReverse(q, key) == Reverse(StableSort(q, key))

\* q.sort(key = lambda k: k[key], reverse = True): the list is reversed,
\* sorted ascending and stably, and reversed again
SortReverse(q, key) == Reverse(StableSort(Reverse(q), key))

\* lines 103-111: the entries sort_data sets aside for sort_key
Filtered(movie_list, sort_key) ==
    LET aside(x) ==
          IF sort_key = "critic_score" THEN x.critic_score.k = "unicode"
          ELSE IF sort_key = "audience_review"
          THEN x.audience_review.k = "unicode"
               /\ Contains(x.audience_review.s, <<"w", "a", "n", "t">>)
          ELSE x.audience_review.k = "unicode"
               /\ Contains(x.audience_review.s, <<"l", "i", "k", "e", "d">>)
    IN  SelectSeq(movie_list, aside)

\* line 112 left out
RemainderKeepsAll(movie_list, filtered_list) == movie_list

\* line 112: [x for x in movie_list if x not in filtered_list]
Remainder(movie_list, filtered_list) ==
    LET kept(x) == \A j \in 1..Len(filtered_list) : filtered_list[j] # x
    IN  SelectSeq(movie_list, kept)

\* some dict of the list has no "audience_review" entry
LacksAudience(movie_list) ==
    \E j \in 1..Len(movie_list) : movie_list[j].audience_review = Missing

\* sort_data raises KeyError: lines 107 and 110 read x["audience_review"]
SortRaises(movie_list, sort_key) ==
    sort_key # "critic_score" /\ LacksAudience(movie_list)

\* lines 96-120, for a call that returns
sort_data(movie_list, sort_key) ==
    LET filtered_list == Filtered(movie_list, sort_key)
        rest == Remainder(movie_list, filtered_list)
        key == IF sort_key = "audience_anticipation" THEN "audience_review" ELSE sort_key
    IN  SortReverse(rest, key) \o SortReverse(filtered_list, key)

(***************************************************************************)
(* create_plot (lines 136-169): the tuples it hands to the plotting        *)
(* library.  The bars always pair up; the tick labels can outnumber the    *)
(* ticks, which the library may or may not accept.                         *)
(***************************************************************************)
PlotLabelsFit(data) ==
    LET isInt(v) == v.k = "int"
        both == {j \in 1..Len(data) : isInt(data[j].critic_score)
                                       /\ isInt(data[j].audience_review)}
        labelled == {j \in 1..Len(data) :
                       \E h \in both : data[h].critic_score = data[j].critic_score}
    IN  Cardinality(labelled) = Cardinality(both)

(***************************************************************************)
(* The session: main holds what parse_homepage returned, a list of dicts   *)
(* with distinct names, a critic score that is an int or a trimmed text,   *)
(* and an audience review that is an int, a text or missing.  Titles only  *)
(* tell the dicts apart, so the j-th dict is given the j-th title.         *)
(***************************************************************************)
Titles == <<"Movie V", "Movie W", "Movie X", "Movie Y", "Movie Z">>

CriticValues == {IntV(90), IntV(75), StrV(<<"S", "o", "o", "n">>)}

AudienceValues ==
    {Missing, IntV(80), StrV(<<"w", "a", "n", "t">>), StrV(<<"l", "i", "k", "e", "d">>)}

Collections ==
    UNION {[1..n -> CriticValues \X AudienceValues] : n \in 0..MaxMovies}

InitSession ==
    /\ sessPc = "prompt"
    /\ \E c \in Collections :
          loaded = [j \in 1..Len(c) |->
                      [name |-> Titles[j], critic_score |-> c[j][1], audience_review |-> c[j][2]]]
    /\ results = loaded
    /\ prev = <<>>
    /\ choice = ""
    /\ sessErr = "none"
    /\ ScoreIdle /\ PageIdle /\ HomeIdle

SortKeyError == "KeyError: 'audience_review' in sort_data"
PrintKeyError == "KeyError: 'audience_review' in print_data"
PlotKeyError == "KeyError: 'audience_review' in create_plot"
PlotLabelError == "ValueError in create_plot"

\* results = sort_data(results, sort_key), for the command typed
SortCommand(cmd, sort_key) ==
    /\ sessPc = "prompt"
    /\ choice' = cmd
    /\ prev' = results
    /\ IF SortRaises(results, sort_key)
       THEN sessPc' = "raised" /\ sessErr' = SortKeyError /\ UNCHANGED results
       ELSE sessPc' = "print" /\ results' = sort_data(results, sort_key)
            /\ UNCHANGED sessErr
    /\ UNCHANGED <<loaded, scoreVars, pageVars, homeVars>>

\* lines 185-186
CmdAudience == SortCommand("AUDIENCE", "audience_review")

\* lines 188-189
CmdCritic == SortCommand("CRITIC", "critic_score")

\* lines 191-192
CmdAnticipation == SortCommand("ANTICIPATION", "audience_anticipation")

\* lines 187, 190, 193: print_data(results), which reads movie['audience_review']
PrintData ==
    /\ sessPc = "print"
    /\ IF LacksAudience(results)
       THEN sessPc' = "raised" /\ sessErr' = PrintKeyError
       ELSE sessPc' = "prompt" /\ UNCHANGED sessErr
    /\ UNCHANGED <<loaded, results, prev, choice, scoreVars, pageVars, homeVars>>

\* lines 194-195: create_plot(results)
CmdPlot ==
    /\ sessPc = "prompt"
    /\ choice' = "PLOT"
    /\ prev' = results
    /\ IF LacksAudience(results)
       THEN sessPc' = "raised" /\ sessErr' = PlotKeyError
       ELSE \/ UNCHANGED <<sessPc, sessErr>>
            \/ /\ ~PlotLabelsFit(results)
               /\ sessPc' = "raised" /\ sessErr' = PlotLabelError
    /\ UNCHANGED <<loaded, results, scoreVars, pageVars, homeVars>>

\* lines 198-199: any other input
CmdInvalid ==
    /\ sessPc = "prompt"
    /\ choice' = "INVALID"
    /\ prev' = results
    /\ UNCHANGED <<sessPc, sessErr, loaded, results, scoreVars, pageVars, homeVars>>

\* lines 196-197
CmdQuit ==
    /\ sessPc = "prompt"
    /\ choice' = "QUIT"
    /\ prev' = results
    /\ sessPc' = "exited"
    /\ UNCHANGED <<sessErr, loaded, results, scoreVars, pageVars, homeVars>>

NextSession ==
    CmdAudience \/ CmdCritic \/ CmdAnticipation \/ PrintData \/ CmdPlot \/ CmdInvalid \/ CmdQuit

SpecSession == InitSession /\ [][NextSession]_vars

CountIn(q, x) == Cardinality({j \in 1..Len(q) : q[j] = x})

IsPermutation(q, r) ==
    /\ Len(q) = Len(r)
    /\ \A j \in 1..Len(r) : CountIn(q, r[j]) = CountIn(r, r[j])

\* the place of the dict named n in q
PlaceOf(q, n) == CHOOSE j \in 1..Len(q) : q[j].name = n

(***************************************************************************)
(* C6: a record without an audience score is a valid member of the         *)
(* collection: sorting by audience score or by anticipation completes and  *)
(* returns an ordering that still holds the record.                        *)
(***************************************************************************)
C6_SortToleratesMissingAudience ==
    (choice \in {"AUDIENCE", "ANTICIPATION"} /\ LacksAudience(prev)) =>
        /\ sessErr # SortKeyError
        /\ sessPc # "raised"
        /\ IsPermutation(results, prev)

(***************************************************************************)
(* C7: sort_data by critic score puts every record with a numeric critic   *)
(* score before every record without one, the numeric ones by descending   *)
(* score, records of equal score in their order in the list passed in.     *)
(***************************************************************************)
C7_CriticSortNumericFirstDescendingStable ==
    (choice = "CRITIC" /\ sessPc = "print") =>
        /\ IsPermutation(results, prev)
        /\ \A a, b \in 1..Len(results) :
              a < b =>
                /\ ~(results[a].critic_score.k # "int" /\ results[b].critic_score.k = "int")
                /\ (results[a].critic_score.k = "int" /\ results[b].critic_score.k = "int") =>
                      /\ results[a].critic_score.i >= results[b].critic_score.i
                      /\ results[a].critic_score.i = results[b].critic_score.i =>
                            PlaceOf(prev, results[a].name) < PlaceOf(prev, results[b].name)

C7_Witness ==
    /\ choice = "CRITIC"
    /\ sessPc = "print"
    /\ Len(prev) = 3
    /\ prev[1].critic_score.k = "unicode"
    /\ prev[2].critic_score = IntV(90)
    /\ prev[3].critic_score = IntV(90)
    /\ results = <<prev[2], prev[3], prev[1]>>

(***************************************************************************)
(* C10: after any commands that complete, the collection is a permutation  *)
(* of what parse_homepage returned (nothing dropped, duplicated or         *)
(* altered), and PLOT and unrecognized input leave it and its order as     *)
(* they were.                                                              *)
(***************************************************************************)
C10_SessionKeepsCollection ==
    sessPc # "raised" =>
        /\ IsPermutation(results, loaded)
        /\ choice \in {"PLOT", "INVALID"} => results = prev

C10_Witness ==
    /\ sessPc = "prompt"
    /\ choice = "PLOT"
    /\ Len(loaded) = 3
    /\ results # loaded
    /\ results = prev

====
